---- MODULE Spec2Model ----
(***************************************************************************)
(* Orientation-to-display pipeline of LESSERAFIM-CAMERA:                   *)
(*   src/src/managers/OrientationManager.js  (permission, sampling,        *)
(*                                             smoothing, fan-out)          *)
(*   src/src/systems/AngelDisplaySystem.js   (rate limiting, conversion,   *)
(*                                             screen mapping, labels)      *)
(*                                                                         *)
(* JavaScript numbers are modelled as exact rationals <<n, d>> (d > 0,     *)
(* lowest terms); null/undefined is the pair <<0, 0>>.  Times are integer  *)
(* milliseconds (Date.now()).                                              *)
(***************************************************************************)
EXTENDS Integers, Sequences, FiniteSets, TLC

(***************************************************************************)
(* Bounds of the model                                                     *)
(***************************************************************************)
MaxCalls == 2
MaxSamples == 2
MaxCallbacks == 2
MaxTimers == 1
MaxTime == 1
MaxDelivered == 1
MaxPrimitives == 4
MaxTweens == 1
MaxElapsed == 17
Epoch == 100000
MaxSteps == 20
MaxTurns == 2
MaxReturned == 2

(***************************************************************************)
(* Numbers                                                                 *)
(***************************************************************************)
Abs(x) == IF x < 0 THEN -x ELSE x

RECURSIVE GCD(_, _)
GCD(a, b) == IF b = 0 THEN a ELSE GCD(b, a % b)

Rat(n, d) ==
    LET g == GCD(Abs(n), d)
    IN  <<n \div g, d \div g>>

Null == <<0, 0>>
Zero == <<0, 1>>
IsNull(x) == x[2] = 0
Num(n) == <<n, 1>>

LCM(a, b) == (a \div GCD(a, b)) * b

\* An arithmetic or relational operator converts null to the number 0.
ToNumber(x) == IF IsNull(x) THEN Zero ELSE x

RAdd(x, y) ==
    LET a == ToNumber(x)
        b == ToNumber(y)
        l == LCM(a[2], b[2])
    IN  Rat(a[1] * (l \div a[2]) + b[1] * (l \div b[2]), l)

RNeg(a) == <<-a[1], a[2]>>
RSub(a, b) == RAdd(a, RNeg(b))

RMul(x, y) ==
    LET a == ToNumber(x)
        b == ToNumber(y)
        g1 == GCD(Abs(a[1]), b[2])
        g2 == GCD(Abs(b[1]), a[2])
    IN  Rat((a[1] \div g1) * (b[1] \div g2), (a[2] \div g2) * (b[2] \div g1))

RDiv(a, b) ==
    IF b[1] < 0 THEN RMul(a, <<-b[2], -b[1]>>) ELSE RMul(a, <<b[2], b[1]>>)

RLt(a, b) == ToNumber(a)[1] * ToNumber(b)[2] < ToNumber(b)[1] * ToNumber(a)[2]
RLe(a, b) == ToNumber(a)[1] * ToNumber(b)[2] <= ToNumber(b)[1] * ToNumber(a)[2]
RGt(a, b) == RLt(b, a)
RGe(a, b) == RLe(b, a)

(***************************************************************************)
(* Subscribers.  A callback is known by its identity; a callback may throw *)
(* when it is invoked, or unsubscribe itself when it is invoked (a         *)
(* listener for one sample calls removeOrientationCallback on itself).     *)
(***************************************************************************)
Callbacks == {"cbA", "cbThrow"}
Throws(cb) == cb = "cbThrow"
Unsubscribes(cb) == cb = "cbOnce"
FanoutCallbacks == {"cbA", "cbOnce"}

VARIABLES
    om,        \* the OrientationManager instance (its fields)
    win,       \* the platform: sensor API, screen, listeners, pending timers
    calls,     \* the async calls of initialize()/requestPermissionImmediately()
    now,       \* Date.now()
    fanout,    \* the callbacks invoked by the last step, in order
    lastOp,    \* the operation or platform event of the last step
    accepted,  \* the number of samples accepted so far
    unsubscribed, \* the callbacks removed by removeOrientationCallback and
               \* not registered again since
    ads,       \* the AngelDisplaySystem instance (its fields)
    scene,     \* the render host: viewport, images, texts, tweens
    args,      \* the angles a caller holds for the angle calculators
    returned   \* the calculator calls made so far: operation, input, output

mgrVars == <<om, win, calls, fanout, accepted, unsubscribed>>
dispVars == <<ads, scene>>
calcVars == <<args, returned>>
vars == <<om, win, calls, now, fanout, lastOp, accepted, unsubscribed, ads, scene,
          args, returned>>

(***************************************************************************)
(* OrientationManager: constructor                                         *)
(***************************************************************************)
NewOrientationManager ==
    [ isPermissionGranted        |-> FALSE,
      isTracking                 |-> FALSE,
      isVerticalOrientation      |-> FALSE,
      orientationMessageVisible  |-> FALSE,
      referenceHorizon           |-> Zero,
      currentOrientation         |-> Zero,
      currentRaw                 |-> Zero,
      currentSmoothed            |-> Zero,
      deltaFromReference         |-> Zero,
      lastUpdate                 |-> 0,
      smoothingFactor            |-> Rat(1, 5),
      orientationChangeCallbacks |-> <<>>,
      verticalStateCallbacks     |-> <<>>,
      permissionCallbacks        |-> <<>> ]

(***************************************************************************)
(* The platform (window, screen, DeviceOrientationEvent).                  *)
(*   sensorApi: "absent"  - window.DeviceOrientationEvent is undefined     *)
(*              "nocap"   - present, no requestPermission function         *)
(*              "cap"     - present with requestPermission                 *)
(*   listeners: per event type, the set of attached listener functions     *)
(*   arrows:    number of arrow functions created by                       *)
(*              startContinuousMonitoring so far                           *)
(*   timers:    pending setTimeout(..., 100) callbacks                     *)
(***************************************************************************)
SensorApis == {"absent", "nocap", "cap"}
Angles == {0, 90, 180, 270}

handleOrientationChangeFn == <<"handleOrientationChange", 0>>
checkDeviceOrientationFn == <<"checkDeviceOrientation", 0>>
ArrowFn(k) == <<"arrow", k>>

NewWindow(api, hasScreenOrientation, angle) ==
    [ sensorApi         |-> api,
      screenOrientation |-> hasScreenOrientation,
      angle             |-> angle,
      innerWidth        |-> IF angle \in {0, 180} THEN 375 ELSE 667,
      innerHeight       |-> IF angle \in {0, 180} THEN 667 ELSE 375,
      deviceorientation |-> {},
      orientationchange |-> {},
      arrows            |-> 0,
      timers            |-> 0 ]

addEventListener(w, type, fn) ==
    IF type = "deviceorientation"
    THEN [w EXCEPT !.win.deviceorientation = @ \cup {fn}]
    ELSE [w EXCEPT !.win.orientationchange = @ \cup {fn}]

removeEventListener(w, type, fn) ==
    IF type = "deviceorientation"
    THEN [w EXCEPT !.win.deviceorientation = @ \ {fn}]
    ELSE [w EXCEPT !.win.orientationchange = @ \ {fn}]

(***************************************************************************)
(* A method of the manager is an operator on a world                       *)
(*   w = [om, win, log, notified]                                          *)
(* log: the callback invocations made so far in this step;                 *)
(* notified: the arguments of the notifyPermissionCallbacks calls made so  *)
(* far in this step.                                                       *)
(***************************************************************************)
World == [om |-> om, win |-> win, log |-> <<>>, notified |-> <<>>]

Invocation(chan, cb, arg) == [chan |-> chan, cb |-> cb, arg |-> arg]

\* Array.prototype.indexOf: the first index of x, 0 if there is none
indexOf(list, x) ==
    IF \E i \in 1..Len(list) : list[i] = x
    THEN CHOOSE i \in 1..Len(list) :
            list[i] = x /\ \A j \in 1..(i - 1) : list[j] # x
    ELSE 0

\* list.splice(index, 1)
splice1(list, index) ==
    [j \in 1..(Len(list) - 1) |-> IF j < index THEN list[j] ELSE list[j + 1]]

removeOrientationCallback(w, callback) ==
    LET index == indexOf(w.om.orientationChangeCallbacks, callback)
    IN  IF index > 0
        THEN [w EXCEPT !.om.orientationChangeCallbacks = splice1(@, index)]
        ELSE w

\* The callbacks of a channel, as the array stands now
ListOf(m, chan) ==
    CASE chan = "orientation" -> m.orientationChangeCallbacks
      [] chan = "vertical"    -> m.verticalStateCallbacks
      [] OTHER                -> m.permissionCallbacks

\* callback(arg): the invocation is logged; a self-unsubscribing callback
\* calls removeOrientationCallback(callback)
invoke(w, chan, cb, arg) ==
    LET w1 == [w EXCEPT !.log = Append(@, Invocation(chan, cb, arg))]
    IN  IF Unsubscribes(cb) THEN removeOrientationCallback(w1, cb) ELSE w1

RECURSIVE forEachStopOnThrow(_, _, _, _)
forEachStopOnThrow(w, i, chan, arg) ==
    IF i > Len(ListOf(w.om, chan)) THEN w
    ELSE LET cb == ListOf(w.om, chan)[i]
             w1 == invoke(w, chan, cb, arg)
         IN  IF Throws(cb) THEN w1
             ELSE forEachStopOnThrow(w1, i + 1, chan, arg)

\* list.forEach(callback => { try { callback(arg) } catch (error) { log } })
\* forEach visits index i of the array as it stands when index i is reached.
RECURSIVE forEachCallback(_, _, _, _)
forEachCallback(w, i, chan, arg) ==
    IF i > Len(ListOf(w.om, chan)) THEN w
    ELSE LET cb == ListOf(w.om, chan)[i]
             w1 == invoke(w, chan, cb, arg)
         IN  IF Throws(cb)
             THEN \* caught and logged; the iteration goes on
                  forEachCallback(w1, i + 1, chan, arg)
             ELSE forEachCallback(w1, i + 1, chan, arg)

notifyOrientationCallbacks(w, orientationData) ==
    forEachCallback(w, 1, "orientation", orientationData)

notifyVerticalStateCallbacks(w, isVertical, action) ==
    forEachCallback(w, 1, "vertical", <<isVertical, action>>)

notifyPermissionCallbacks(w, granted) ==
    [forEachCallback(w, 1, "permission", granted) EXCEPT
        !.notified = Append(@, granted)]

(***************************************************************************)
(* Relative orientation                                                    *)
(***************************************************************************)
RECURSIVE whileAbove180(_)
whileAbove180(relative) ==
    IF RGt(relative, Num(180)) THEN whileAbove180(RSub(relative, Num(360)))
    ELSE relative

RECURSIVE whileBelowMinus180(_)
whileBelowMinus180(relative) ==
    IF RLt(relative, Num(-180)) THEN whileBelowMinus180(RAdd(relative, Num(360)))
    ELSE relative

getCurrentRelativeOrientationUnwrapped(m) ==
    RSub(m.currentOrientation, m.referenceHorizon)

getCurrentRelativeOrientation(m) ==
    whileBelowMinus180(whileAbove180(RSub(m.currentOrientation, m.referenceHorizon)))

setReferenceHorizonStaleDelta(w, orientation) ==
    IF ~IsNull(orientation)
    THEN [w EXCEPT !.om.referenceHorizon = orientation]
    ELSE [w EXCEPT !.om.referenceHorizon = w.om.currentOrientation]

setReferenceHorizon(w, orientation) ==
    LET w1 == IF ~IsNull(orientation)
              THEN [w EXCEPT !.om.referenceHorizon = orientation]
              ELSE [w EXCEPT !.om.referenceHorizon = w.om.currentOrientation]
    IN  [w1 EXCEPT !.om.deltaFromReference = getCurrentRelativeOrientation(w1.om)]

(***************************************************************************)
(* Rotate message and the vertical check                                   *)
(***************************************************************************)
showOrientationMessage(w) ==
    IF w.om.orientationMessageVisible THEN w
    ELSE notifyVerticalStateCallbacks(
             [w EXCEPT !.om.orientationMessageVisible = TRUE], FALSE, "show_message")

hideOrientationMessage(w) ==
    IF ~w.om.orientationMessageVisible THEN w
    ELSE notifyVerticalStateCallbacks(
             [w EXCEPT !.om.orientationMessageVisible = FALSE], TRUE, "hide_message")

checkDeviceOrientation(w) ==
    LET isVertical == IF w.win.screenOrientation
                      THEN w.win.angle = 0 \/ w.win.angle = 180
                      ELSE w.win.innerHeight > w.win.innerWidth
        wasVertical == w.om.isVerticalOrientation
        w1 == [w EXCEPT !.om.isVerticalOrientation = isVertical]
        w2 == notifyVerticalStateCallbacks(w1, isVertical, "null")
        w3 == IF isVertical /\ w2.om.currentOrientation # Zero
              THEN setReferenceHorizon(w2, w2.om.currentOrientation)
              ELSE w2
        w4 == IF isVertical THEN hideOrientationMessage(w3)
              ELSE showOrientationMessage(w3)
    IN  IF wasVertical # isVertical THEN w4 ELSE w1

(***************************************************************************)
(* Sampling                                                                *)
(***************************************************************************)
OrientationDataRawAsSmoothed(m) ==
    [ raw                |-> m.currentRaw,
      smoothed           |-> m.currentRaw,
      current            |-> m.currentOrientation,
      deltaFromReference |-> m.deltaFromReference,
      referenceHorizon   |-> m.referenceHorizon,
      timestamp          |-> m.lastUpdate ]

OrientationData(m) ==
    [ raw                |-> m.currentRaw,
      smoothed           |-> m.currentSmoothed,
      current            |-> m.currentOrientation,
      deltaFromReference |-> m.deltaFromReference,
      referenceHorizon   |-> m.referenceHorizon,
      timestamp          |-> m.lastUpdate ]

\* Convert to 0-360 range: if (orientation < 0) orientation += 360
to360(alpha) == IF RLt(alpha, Zero) THEN RAdd(alpha, Num(360)) ELSE alpha

smooth(m, orientation) ==
    IF m.currentSmoothed = Zero
    THEN orientation
    ELSE RAdd(RMul(m.currentSmoothed, RSub(Num(1), m.smoothingFactor)),
              RMul(orientation, m.smoothingFactor))

sampleAcceptedAnyAlpha(m, event) == m.isVerticalOrientation

sampleAcceptedAnyPosture(m, event) == ~IsNull(event.alpha)

\* not (event.alpha === null || !this.isVerticalOrientation)
sampleAccepted(m, event) ==
    ~(IsNull(event.alpha) \/ ~m.isVerticalOrientation)

handleOrientationChange(w, event, t) ==
    IF ~sampleAccepted(w.om, event) THEN w
    ELSE
      LET orientation == to360(event.alpha)
          smoothed == smooth(w.om, orientation)
          w1 == [w EXCEPT !.om.currentRaw = event.alpha,
                          !.om.currentSmoothed = smoothed,
                          !.om.currentOrientation = smoothed,
                          !.om.lastUpdate = t]
          w2 == [w1 EXCEPT !.om.deltaFromReference =
                               getCurrentRelativeOrientation(w1.om)]
      IN  notifyOrientationCallbacks(w2, OrientationData(w2.om))

(***************************************************************************)
(* Monitoring                                                              *)
(***************************************************************************)
startContinuousMonitoring(w) ==
    IF ~w.om.isPermissionGranted THEN w
    ELSE
      LET w1 == addEventListener(w, "deviceorientation", handleOrientationChangeFn)
          w2 == addEventListener([w1 EXCEPT !.win.arrows = @ + 1],
                                 "orientationchange", ArrowFn(w1.win.arrows + 1))
          w3 == checkDeviceOrientation(w2)
      IN  [w3 EXCEPT !.om.isTracking = TRUE]

stopTrackingKeepsListener(w) ==
    IF w.om.isTracking
    THEN [removeEventListener(w, "orientationchange", checkDeviceOrientationFn)
             EXCEPT !.om.isTracking = FALSE]
    ELSE w

stopTracking(w) ==
    IF w.om.isTracking
    THEN LET w1 == removeEventListener(w, "deviceorientation", handleOrientationChangeFn)
             w2 == removeEventListener(w1, "orientationchange", checkDeviceOrientationFn)
         IN  [w2 EXCEPT !.om.isTracking = FALSE]
    ELSE w

destroy(w) ==
    [stopTracking(w) EXCEPT !.om.orientationChangeCallbacks = <<>>,
                            !.om.verticalStateCallbacks = <<>>,
                            !.om.permissionCallbacks = <<>>]

(***************************************************************************)
(* requestPermissionImmediately(): the code after the await (lines 87-101) *)
(* and the catch block (lines 103-108).  Each leaves the returned value in *)
(* field ret.                                                              *)
(***************************************************************************)
permissionSettled(w, granted) ==
    notifyPermissionCallbacks([w EXCEPT !.om.isPermissionGranted = granted], granted)

permissionFailed(w) ==
    notifyPermissionCallbacks([w EXCEPT !.om.isPermissionGranted = FALSE], FALSE)

\* initialize(): the code after `await this.requestPermissionImmediately()`
initializeResumed(w, permissionGranted) ==
    IF permissionGranted
    THEN startContinuousMonitoring(w)
    ELSE notifyPermissionCallbacks(w, FALSE)

(***************************************************************************)
(* Async calls.  A call is                                                 *)
(*   [kind, pc, outcome, granted, result, notified, stale]                 *)
(* kind:     "initialize" or "request" (a direct                           *)
(*           requestPermissionImmediately())                               *)
(* pc:       "awaitPermission" - suspended at                              *)
(*              await DeviceOrientationEvent.requestPermission()           *)
(*           "awaitRequest"    - initialize() suspended at                 *)
(*              await this.requestPermissionImmediately(), which has       *)
(*              returned `granted`                                         *)
(*           "done"            - the promise of the call is resolved with  *)
(*              `result`                                                   *)
(* outcome:  how the permission question ended                             *)
(* notified: the arguments of the notifyPermissionCallbacks calls the call *)
(*           has made                                                      *)
(* stale:    stopTracking() or destroy() ran while the call was suspended  *)
(*           at its permission request                                     *)
(***************************************************************************)
Call(kind, pc, outcome, granted, result, notified) ==
    [kind |-> kind, pc |-> pc, outcome |-> outcome, granted |-> granted,
     result |-> result, notified |-> notified, stale |-> FALSE]

PermissionStates == {"granted", "denied", "prompt"}

CommitWith(r, op, removed) ==
    /\ om' = r.om
    /\ win' = r.win
    /\ fanout' = r.log
    /\ lastOp' = op
    /\ unsubscribed' = removed
    /\ UNCHANGED <<dispVars, calcVars>>

\* The callbacks that unsubscribed themselves in the fan-outs of a step
UnsubscribedIn(log) ==
    {log[k].cb : k \in {j \in 1..Len(log) : Unsubscribes(log[j].cb)}}

Commit(r, op) == CommitWith(r, op, unsubscribed \cup UnsubscribedIn(r.log))

\* The synchronous part of requestPermissionImmediately(), up to its first
\* await or its return; throws: DeviceOrientationEvent.requestPermission()
\* throws instead of returning a promise.
requestStarted(w, kind, throws) ==
    CASE w.win.sensorApi = "absent" ->
           \* evaluating DeviceOrientationEvent.requestPermission throws
           LET r == permissionFailed(w)
           IN  [w |-> r, call |-> Call(kind, "returned", "unsupported", FALSE, FALSE, r.notified)]
      [] w.win.sensorApi = "nocap" ->
           LET r == permissionSettled(w, TRUE)
           IN  [w |-> r, call |-> Call(kind, "returned", "assumed", TRUE, TRUE, r.notified)]
      [] w.win.sensorApi = "cap" /\ throws ->
           LET r == permissionFailed(w)
           IN  [w |-> r, call |-> Call(kind, "returned", "thrown", FALSE, FALSE, r.notified)]
      [] OTHER ->
           [w |-> w, call |-> Call(kind, "awaitPermission", "pending", FALSE, FALSE, <<>>)]

\* The pc of a call whose requestPermissionImmediately() has returned.
AfterRequest(call) ==
    IF call.pc # "returned" THEN call
    ELSE IF call.kind = "initialize"
         THEN [call EXCEPT !.pc = "awaitRequest"]
         ELSE [call EXCEPT !.pc = "done"]

sensorSupportedAlways(w) == TRUE

\* window.DeviceOrientationEvent is truthy
sensorSupported(w) == w.win.sensorApi # "absent"

Initialize ==
    /\ Len(calls) < MaxCalls
    /\ IF ~sensorSupported(World)
       THEN \* throw new Error(...) -> catch -> return false
            /\ calls' = Append(calls, Call("initialize", "done", "unsupported",
                                           FALSE, FALSE, <<>>))
            /\ Commit(World, "initialize")
       ELSE \E throws \in BOOLEAN :
              LET s == requestStarted(World, "initialize", throws)
              IN  /\ throws => win.sensorApi = "cap"
                  /\ calls' = Append(calls, AfterRequest(s.call))
                  /\ Commit(s.w, "initialize")
    /\ UNCHANGED <<now, accepted>>

RequestPermissionImmediately ==
    /\ Len(calls) < MaxCalls
    /\ \E throws \in BOOLEAN :
         LET s == requestStarted(World, "request", throws)
         IN  /\ throws => win.sensorApi = "cap"
             /\ calls' = Append(calls, AfterRequest(s.call))
             /\ Commit(s.w, "requestPermissionImmediately")
    /\ UNCHANGED <<now, accepted>>

isGrantedUnlessDenied(permission) == permission # "denied"

\* permission === 'granted'
isGranted(permission) == permission = "granted"

\* The platform resolves the permission promise of call i with `permission`.
PermissionResolve(i, permission) ==
    /\ calls[i].pc = "awaitPermission"
    /\ LET granted == isGranted(permission)
           r == permissionSettled(World, granted)
       IN  /\ calls' = [calls EXCEPT ![i] =
                           AfterRequest([@ EXCEPT !.pc = "returned",
                                                  !.outcome = permission,
                                                  !.granted = granted,
                                                  !.result = granted,
                                                  !.notified = @ \o r.notified])]
           /\ Commit(r, "permissionResolved")
    /\ UNCHANGED <<now, accepted>>

\* The platform rejects the permission promise of call i.
PermissionReject(i) ==
    /\ calls[i].pc = "awaitPermission"
    /\ LET r == permissionFailed(World)
       IN  /\ calls' = [calls EXCEPT ![i] =
                           AfterRequest([@ EXCEPT !.pc = "returned",
                                                  !.outcome = "rejected",
                                                  !.granted = FALSE,
                                                  !.result = FALSE,
                                                  !.notified = @ \o r.notified])]
           /\ Commit(r, "permissionRejected")
    /\ UNCHANGED <<now, accepted>>

\* initialize() of call i resumes after its await.
InitializeResume(i) ==
    /\ calls[i].pc = "awaitRequest"
    /\ LET r == initializeResumed(World, calls[i].granted)
       IN  /\ calls' = [calls EXCEPT ![i] = [@ EXCEPT !.pc = "done",
                                                     !.result = calls[i].granted,
                                                     !.notified = @ \o r.notified]]
           /\ Commit(r, "initializeResumed")
    /\ UNCHANGED <<now, accepted>>

\* The calls suspended at their permission request see a torn-down manager
\* when they resume.
TornDown(cs) ==
    [i \in 1..Len(cs) |->
        IF cs[i].pc = "awaitPermission" THEN [cs[i] EXCEPT !.stale = TRUE] ELSE cs[i]]

StopTracking ==
    /\ Commit(stopTracking(World), "stopTracking")
    /\ calls' = TornDown(calls)
    /\ UNCHANGED <<now, accepted>>

Destroy ==
    /\ Commit(destroy(World), "destroy")
    /\ calls' = TornDown(calls)
    /\ UNCHANGED <<now, accepted>>

(***************************************************************************)
(* Subscriber registration                                                 *)
(***************************************************************************)
onOrientationChange(w, callback) ==
    [w EXCEPT !.om.orientationChangeCallbacks = Append(@, callback)]

onVerticalStateChange(w, callback) ==
    [w EXCEPT !.om.verticalStateCallbacks = Append(@, callback)]

onPermissionChange(w, callback) ==
    [w EXCEPT !.om.permissionCallbacks = Append(@, callback)]

OnOrientationChange(cb) ==
    /\ Len(om.orientationChangeCallbacks) < MaxCallbacks
    /\ CommitWith(onOrientationChange(World, cb), "onOrientationChange",
                  unsubscribed \ {cb})
    /\ UNCHANGED <<calls, now, accepted>>

OnVerticalStateChange(cb) ==
    /\ Len(om.verticalStateCallbacks) < MaxCallbacks
    /\ Commit(onVerticalStateChange(World, cb), "onVerticalStateChange")
    /\ UNCHANGED <<calls, now, accepted>>

OnPermissionChange(cb) ==
    /\ Len(om.permissionCallbacks) < MaxCallbacks
    /\ Commit(onPermissionChange(World, cb), "onPermissionChange")
    /\ UNCHANGED <<calls, now, accepted>>

RemoveOrientationCallback(cb) ==
    /\ CommitWith(removeOrientationCallback(World, cb), "removeOrientationCallback",
                  unsubscribed \cup {cb})
    /\ UNCHANGED <<calls, now, accepted>>

(***************************************************************************)
(* Configuration                                                           *)
(***************************************************************************)
setSmoothingFactorUnchecked(w, factor) ==
    [w EXCEPT !.om.smoothingFactor = factor]

setSmoothingFactor(w, factor) ==
    IF RGe(factor, Rat(1, 10)) /\ RLe(factor, Rat(3, 10))
    THEN [w EXCEPT !.om.smoothingFactor = factor]
    ELSE w

SetSmoothingFactor(factor) ==
    /\ Commit(setSmoothingFactor(World, factor), "setSmoothingFactor")
    /\ UNCHANGED <<calls, now, accepted>>

SetReferenceHorizon(orientation) ==
    /\ Commit(setReferenceHorizon(World, orientation),
              "setReferenceHorizon")
    /\ UNCHANGED <<calls, now, accepted>>

(***************************************************************************)
(* Platform events                                                         *)
(***************************************************************************)
\* A 'deviceorientation' event with this alpha reaches the attached listener.
DeviceOrientation(alpha, max) ==
    /\ handleOrientationChangeFn \in win.deviceorientation
    /\ accepted < max
    /\ LET event == [alpha |-> alpha, beta |-> Zero, gamma |-> Zero]
       IN  /\ Commit(handleOrientationChange(World, event, now),
                     "deviceorientation")
           /\ accepted' = IF sampleAccepted(om, event) THEN accepted + 1 ELSE accepted
    /\ UNCHANGED <<calls, now>>

\* Each attached 'orientationchange' listener is an arrow function that
\* starts a 100 ms timer for checkDeviceOrientation().
dispatchOrientationChange(w) ==
    [w EXCEPT !.win.timers =
        @ + Cardinality({fn \in w.win.orientationchange : fn[1] = "arrow"})]

\* The device is rotated: the screen angle and the window dimensions change
\* and the platform fires 'orientationchange'.
RotateDevice(angle) ==
    /\ angle # win.angle
    /\ win.timers + Cardinality(win.orientationchange) <= MaxTimers
    /\ LET rotated == [World EXCEPT
                          !.win.angle = angle,
                          !.win.innerWidth = IF angle \in {0, 180} THEN 375 ELSE 667,
                          !.win.innerHeight = IF angle \in {0, 180} THEN 667 ELSE 375]
       IN  Commit(dispatchOrientationChange(rotated), "orientationchange")
    /\ UNCHANGED <<calls, now, accepted>>

\* A pending timer of an 'orientationchange' listener fires.
OrientationChangeTimer ==
    /\ win.timers > 0
    /\ Commit(checkDeviceOrientation([World EXCEPT !.win.timers = @ - 1]),
              "orientationchangeTimer")
    /\ UNCHANGED <<calls, now, accepted>>

Tick ==
    /\ now < Epoch + MaxTime
    /\ now' = now + 1
    /\ lastOp' = "tick"
    /\ fanout' = <<>>
    /\ UNCHANGED <<om, win, calls, accepted, unsubscribed, dispVars, calcVars>>

(***************************************************************************)
(* AngelDisplaySystem                                                      *)
(*                                                                         *)
(* The render host (scene) keeps the primitives it created:                *)
(*   images: sequence of [x, y, destroyed]                                 *)
(*   texts:  sequence of [text, destroyed]                                 *)
(*   tweens: the transitions requested and not yet completed               *)
(* A handle is an index into images or texts; 0 is null.  A label text is  *)
(* the pair <<prefix, value>> standing for `${prefix}: ${value}°`.         *)
(***************************************************************************)
NullAngel ==
    [ live |-> FALSE, horizontalAngle |-> Zero, verticalAngle |-> Zero,
      sprite |-> 0, screenX |-> Zero, screenY |-> Zero, isVisible |-> FALSE,
      horizontalText |-> 0, verticalText |-> 0 ]

NewAngelDisplaySystem ==
    [ currentAngel      |-> NullAngel,
      horizontalAngle   |-> Zero,
      verticalAngle     |-> Zero,
      angelSprite       |-> 0,
      horizontalText    |-> 0,
      verticalText      |-> 0,
      displayUpdateRate |-> Num(60),
      smoothingEnabled  |-> TRUE,
      angleResolution   |-> Num(1),
      verticalRange     |-> [min |-> Num(-90), max |-> Num(90)],
      lastUpdateTime    |-> 0,
      updateInterval    |-> RDiv(Num(1000), Num(60)) ]

NewScene(width, height) ==
    [ width |-> width, height |-> height,
      images |-> <<>>, texts |-> <<>>, tweens |-> <<>> ]

Display == [ads |-> ads, scene |-> scene]

\* Math.round: the nearest integer, a half rounding towards +Infinity
MathRound(x) == Num((2 * x[1] + x[2]) \div (2 * x[2]))

MathMax(a, b) == IF RGt(b, a) THEN b ELSE a
MathMin(a, b) == IF RLt(b, a) THEN b ELSE a

\* JavaScript a % m: the remainder has the sign of the dividend
JsRem(a, m) ==
    LET q == Abs(a[1]) \div (a[2] * m)
        r == RSub(<<Abs(a[1]), a[2]>>, Num(q * m))
    IN  IF a[1] < 0 THEN RNeg(r) ELSE r

RECURSIVE whileAtLeast360(_)
whileAtLeast360(angle) ==
    IF RGe(angle, Num(360)) THEN whileAtLeast360(RSub(angle, Num(360))) ELSE angle

RECURSIVE whileNegative(_)
whileNegative(angle) ==
    IF RLt(angle, Zero) THEN whileNegative(RAdd(angle, Num(360))) ELSE angle

handleAngleWrapAroundOnce(angle) ==
    LET lowered == IF RGe(angle, Num(360)) THEN RSub(angle, Num(360)) ELSE angle
    IN  IF RLt(lowered, Zero) THEN RAdd(lowered, Num(360)) ELSE lowered

handleAngleWrapAround(angle) == whileNegative(whileAtLeast360(angle))

calculateHorizontalAngleAbsentAsHalfTurn(a, alpha) ==
    IF IsNull(alpha) THEN Num(180)
    ELSE LET horizontal == IF RLt(alpha, Zero) THEN RAdd(alpha, Num(360)) ELSE alpha
             wrapped == handleAngleWrapAround(horizontal)
         IN  RMul(MathRound(RDiv(wrapped, a.angleResolution)), a.angleResolution)

calculateHorizontalAngle(a, alpha) ==
    IF IsNull(alpha) THEN Zero
    ELSE LET horizontal == IF RLt(alpha, Zero) THEN RAdd(alpha, Num(360)) ELSE alpha
             wrapped == handleAngleWrapAround(horizontal)
         IN  RMul(MathRound(RDiv(wrapped, a.angleResolution)), a.angleResolution)

calculateVerticalAngle(a, beta) ==
    IF IsNull(beta) THEN Zero
    ELSE LET vertical == MathMax(a.verticalRange.min, MathMin(a.verticalRange.max, beta))
         IN  RMul(MathRound(RDiv(vertical, a.angleResolution)), a.angleResolution)

normalizeAnglesUnwrapped(a, horizontal, vertical) ==
    [ horizontal |-> horizontal,
      vertical   |-> MathMax(a.verticalRange.min,
                             MathMin(a.verticalRange.max, vertical)) ]

normalizeAnglesMirrored(a, horizontal, vertical) ==
    LET rem == JsRem(horizontal, 360)
    IN  [ horizontal |-> IF RLt(rem, Zero) THEN RNeg(rem) ELSE RSub(Num(360), rem),
          vertical   |-> MathMax(a.verticalRange.min,
                                 MathMin(a.verticalRange.max, vertical)) ]

normalizeAngles(a, horizontal, vertical) ==
    LET rem == JsRem(horizontal, 360)
    IN  [ horizontal |-> IF RLt(rem, Zero) THEN RAdd(rem, Num(360)) ELSE rem,
          vertical   |-> MathMax(a.verticalRange.min,
                                 MathMin(a.verticalRange.max, vertical)) ]

convertToSphericalCoordinates(a, orientation) ==
    normalizeAngles(a, calculateHorizontalAngle(a, orientation.alpha),
                       calculateVerticalAngle(a, orientation.beta))

calculateScreenPositionNotInverted(d, horizontal, vertical) ==
    [ x |-> RMul(RDiv(horizontal, Num(360)), Num(d.scene.width)),
      y |-> RMul(RDiv(RAdd(vertical, Num(90)), Num(180)), Num(d.scene.height)) ]

calculateScreenPosition(d, horizontal, vertical) ==
    [ x |-> RMul(RDiv(horizontal, Num(360)), Num(d.scene.width)),
      y |-> RMul(RSub(Num(1), RDiv(RAdd(vertical, Num(90)), Num(180))),
                 Num(d.scene.height)) ]

formatAngleTextWrapAll(angle, prefix) ==
    LET roundedAngle == MathRound(angle)[1]
    IN  <<prefix, IF roundedAngle >= 360 THEN 0 ELSE roundedAngle>>

formatAngleText(angle, prefix) ==
    LET roundedAngle == MathRound(angle)[1]
    IN  <<prefix, IF prefix = "H" /\ roundedAngle >= 360 THEN 0 ELSE roundedAngle>>

createAngelSprite(d) ==
    LET centerX == RDiv(Num(d.scene.width), Num(2))
        centerY == RDiv(Num(d.scene.height), Num(2))
        handle == Len(d.scene.images) + 1
    IN  [d EXCEPT
           !.scene.images = Append(@, [x |-> centerX, y |-> centerY, destroyed |-> FALSE]),
           !.ads.angelSprite = handle,
           !.ads.currentAngel =
               [ live |-> TRUE, horizontalAngle |-> Zero, verticalAngle |-> Zero,
                 sprite |-> handle, screenX |-> centerX, screenY |-> centerY,
                 isVisible |-> TRUE, horizontalText |-> 0, verticalText |-> 0 ]]

createAngleDisplayText(d) ==
    LET h == Len(d.scene.texts) + 1
        v == Len(d.scene.texts) + 2
        d1 == [d EXCEPT
                 !.scene.texts = @ \o << [text |-> <<"H", 0>>, destroyed |-> FALSE],
                                         [text |-> <<"V", 0>>, destroyed |-> FALSE] >>,
                 !.ads.horizontalText = h,
                 !.ads.verticalText = v]
    IN  IF d1.ads.currentAngel.live
        THEN [d1 EXCEPT !.ads.currentAngel.horizontalText = h,
                        !.ads.currentAngel.verticalText = v]
        ELSE d1

smoothPositionTransition(d, fromPos, toPos) ==
    IF d.ads.angelSprite = 0 THEN d
    ELSE [d EXCEPT !.scene.tweens =
             Append(@, [targets |-> d.ads.angelSprite, x |-> toPos.x, y |-> toPos.y])]

renderAngelAtPosition(d) ==
    IF d.ads.angelSprite = 0 \/ ~d.ads.currentAngel.live THEN d
    ELSE
      LET screenPos == calculateScreenPosition(d, d.ads.horizontalAngle,
                                               d.ads.verticalAngle)
          sprite == d.scene.images[d.ads.angelSprite]
          d1 == IF d.ads.smoothingEnabled
                THEN smoothPositionTransition(d, [x |-> sprite.x, y |-> sprite.y],
                                              screenPos)
                ELSE [d EXCEPT !.scene.images[d.ads.angelSprite].x = screenPos.x,
                               !.scene.images[d.ads.angelSprite].y = screenPos.y]
      IN  [d1 EXCEPT !.ads.currentAngel.screenX = screenPos.x,
                     !.ads.currentAngel.screenY = screenPos.y]

displayAngleValues(d, horizontal, vertical) ==
    IF d.ads.horizontalText = 0 \/ d.ads.verticalText = 0
    THEN createAngleDisplayText(d)
    ELSE [d EXCEPT
            !.scene.texts[d.ads.horizontalText].text = formatAngleText(horizontal, "H"),
            !.scene.texts[d.ads.verticalText].text = formatAngleText(vertical, "V")]

rateLimitedNever(a, currentTime) ==
    RLt(Num(currentTime - a.lastUpdateTime), Zero)

\* currentTime - this.lastUpdateTime < this.updateInterval
rateLimited(a, currentTime) ==
    RLt(Num(currentTime - a.lastUpdateTime), a.updateInterval)

updateCurrentAngel(d, orientation, currentTime) ==
    IF rateLimited(d.ads, currentTime) THEN d
    ELSE
      LET sphericalCoords == convertToSphericalCoordinates(d.ads, orientation)
          d1 == [d EXCEPT !.ads.lastUpdateTime = currentTime,
                          !.ads.horizontalAngle = sphericalCoords.horizontal,
                          !.ads.verticalAngle = sphericalCoords.vertical]
          d2 == IF d1.ads.currentAngel.live
                THEN [d1 EXCEPT
                        !.ads.currentAngel.horizontalAngle = d1.ads.horizontalAngle,
                        !.ads.currentAngel.verticalAngle = d1.ads.verticalAngle]
                ELSE d1
          d3 == renderAngelAtPosition(d2)
      IN  displayAngleValues(d3, d3.ads.horizontalAngle, d3.ads.verticalAngle)

initializeDisplay(d, currentTime) ==
    updateCurrentAngel(createAngleDisplayText(createAngelSprite(d)),
                       [alpha |-> Zero, beta |-> Zero, gamma |-> Zero], currentTime)

setSmoothingEnabled(d, enabled) == [d EXCEPT !.ads.smoothingEnabled = enabled]

setDisplayUpdateRateNoUpperBound(d, fps) ==
    IF RGt(fps, Zero)
    THEN [d EXCEPT !.ads.displayUpdateRate = fps,
                   !.ads.updateInterval = RDiv(Num(1000), fps)]
    ELSE d

setDisplayUpdateRate(d, fps) ==
    IF RGt(fps, Zero) /\ RLe(fps, Num(120))
    THEN [d EXCEPT !.ads.displayUpdateRate = fps,
                   !.ads.updateInterval = RDiv(Num(1000), fps)]
    ELSE d

\* sprite.destroy() / text.destroy(): the render host releases the primitive
\* (and drops the transitions that target it)
DestroyedImage == [x |-> Zero, y |-> Zero, destroyed |-> TRUE]
DestroyedText == [text |-> <<"", 0>>, destroyed |-> TRUE]

destroyImage(d, handle) ==
    IF handle # 0
    THEN [d EXCEPT !.scene.images[handle] = DestroyedImage,
                   !.scene.tweens = SelectSeq(@, LAMBDA t : t.targets # handle)]
    ELSE d

destroyText(d, handle) ==
    IF handle # 0 THEN [d EXCEPT !.scene.texts[handle] = DestroyedText] ELSE d

destroyDisplay(d) ==
    LET d1 == destroyText(destroyText(destroyImage(d, d.ads.angelSprite),
                                      d.ads.horizontalText), d.ads.verticalText)
    IN  [d1 EXCEPT !.ads.currentAngel = NullAngel,
                   !.ads.angelSprite = 0,
                   !.ads.horizontalText = 0,
                   !.ads.verticalText = 0]

(***************************************************************************)
(* Calls on the display system and events of the render host               *)
(***************************************************************************)
WithinBounds(d) ==
    /\ Len(d.scene.images) <= MaxPrimitives
    /\ Len(d.scene.texts) <= MaxPrimitives
    /\ Len(d.scene.tweens) <= MaxTweens

CommitDisplay(d, op) ==
    /\ WithinBounds(d)
    /\ ads' = d.ads
    /\ scene' = d.scene
    /\ lastOp' = op
    /\ UNCHANGED <<mgrVars, now, calcVars>>

InitializeDisplay ==
    CommitDisplay(initializeDisplay(Display, now), "initializeDisplay")

UpdateCurrentAngel(orientation) ==
    CommitDisplay(updateCurrentAngel(Display, orientation, now),
                  "updateCurrentAngel")

RenderAngelAtPosition ==
    CommitDisplay(renderAngelAtPosition(Display), "renderAngelAtPosition")

DisplayAngleValues(horizontal, vertical) ==
    CommitDisplay(displayAngleValues(Display, horizontal, vertical),
                  "displayAngleValues")

SetSmoothingEnabled(enabled) ==
    /\ enabled # ads.smoothingEnabled
    /\ CommitDisplay(setSmoothingEnabled(Display, enabled), "setSmoothingEnabled")

SetDisplayUpdateRate(fps) ==
    CommitDisplay(setDisplayUpdateRate(Display, fps), "setDisplayUpdateRate")

DestroyDisplay ==
    CommitDisplay(destroyDisplay(Display), "destroyDisplay")

\* The oldest requested transition reaches its target position.
TweenComplete ==
    /\ scene.tweens # <<>>
    /\ LET tween == Head(scene.tweens)
       IN  scene' = [scene EXCEPT !.tweens = Tail(@),
                                  !.images[tween.targets].x = tween.x,
                                  !.images[tween.targets].y = tween.y]
    /\ lastOp' = "tweenComplete"
    /\ UNCHANGED <<mgrVars, now, ads, calcVars>>

AdvanceClock(ms) ==
    /\ now + ms <= Epoch + MaxElapsed
    /\ now' = now + ms
    /\ lastOp' = "tick"
    /\ UNCHANGED <<mgrVars, dispVars, calcVars>>

\* updateCurrentAngel(orientation) by a producer of samples; the sample is
\* recorded as the latest one passed in.  The method returns nothing.
DeliverSample(orientation) ==
    /\ Len(returned) < MaxReturned
    /\ LET d == updateCurrentAngel(Display, orientation, now)
       IN  /\ WithinBounds(d)
           /\ ads' = d.ads
           /\ scene' = d.scene
    /\ returned' = Append(returned,
                          [op |-> "updateCurrentAngel",
                           input |-> <<orientation.alpha, orientation.beta>>,
                           output |-> <<>>])
    /\ lastOp' = "updateCurrentAngel"
    /\ UNCHANGED <<mgrVars, now, args>>

(***************************************************************************)
(* Direct calls of the angle calculators.  Each call is recorded with its  *)
(* input and its return value; none of them writes a field.                *)
(***************************************************************************)
Returned(op, input, output) ==
    /\ Len(returned) < MaxReturned
    /\ returned' = Append(returned, [op |-> op, input |-> input, output |-> output])
    /\ lastOp' = op
    /\ UNCHANGED <<mgrVars, now, dispVars, args>>

\* handleAngleWrapAround(args.horizontal + 360 * turns)
HandleAngleWrapAround(turns) ==
    /\ ~IsNull(args.horizontal)
    /\ LET angle == RAdd(args.horizontal, Num(360 * turns))
       IN  Returned("handleAngleWrapAround", <<angle>>,
                    <<handleAngleWrapAround(angle)>>)

\* normalizeAngles(h, v) on the caller's angles or, with again, on the pair
\* the previous call returned
NormalizeAngles(again) ==
    /\ again => returned # <<>> /\ Len(returned[Len(returned)].output) = 2
    /\ ~again => ~IsNull(args.horizontal) /\ ~IsNull(args.vertical)
    /\ LET input == IF again THEN returned[Len(returned)].output
                    ELSE <<args.horizontal, args.vertical>>
           normalized == normalizeAngles(ads, input[1], input[2])
       IN  Returned("normalizeAngles", input,
                    <<normalized.horizontal, normalized.vertical>>)

\* convertToSphericalCoordinates({alpha, beta, gamma}) with the caller's
\* angles, either of which may be absent
ConvertToSphericalCoordinates ==
    LET orientation == [alpha |-> args.horizontal, beta |-> args.vertical,
                        gamma |-> Zero]
        coords == convertToSphericalCoordinates(ads, orientation)
    IN  Returned("convertToSphericalCoordinates",
                 <<orientation.alpha, orientation.beta>>,
                 <<coords.horizontal, coords.vertical>>)

(***************************************************************************)
(* Inputs                                                                  *)
(***************************************************************************)
LifecycleAlphas == {Null, Num(90)}
SamplingAlphas == {Null, Num(-90), Zero, Num(10), Num(350)}
References == {Null, Zero, Num(180)}
Factors == {Null, Rat(1, 20), Rat(3, 10), Rat(1, 2)}
DisplaySamples ==
    { [alpha |-> Null, beta |-> Null, gamma |-> Null],
      [alpha |-> Num(-45), beta |-> Num(120), gamma |-> Zero],
      [alpha |-> Rat(719, 2), beta |-> Rat(-91, 2), gamma |-> Zero],
      [alpha |-> Num(1000), beta |-> Num(-1000), gamma |-> Zero] }
LabelAngles ==
    { <<Num(360), Num(360)>>, <<Rat(457, 10), Rat(-153, 5)>> }
UpdateRates == {Zero, Num(120), Num(121)}
ClockSteps == {8, 9}
SnapshotAlphas == {Null, Num(-90), Num(10)}
SnapshotReferences == {Num(180), Num(350)}
CalcHorizontals ==
    {Null, Rat(719, 2), Rat(-1, 10)}
        \cup {Rat(45 * n, 2) : n \in -MaxSteps..MaxSteps}
CalcVerticals == {Null, Num(-1000), Num(-90), Rat(-91, 2), Zero, Num(91)}
Turns == -MaxTurns..MaxTurns

(***************************************************************************)
(* Initial states: both objects as their constructors leave them           *)
(***************************************************************************)
Constructed(windows) ==
    /\ om = NewOrientationManager
    /\ win \in windows
    /\ calls = <<>>
    /\ now = Epoch
    /\ fanout = <<>>
    /\ lastOp = "constructor"
    /\ accepted = 0
    /\ unsubscribed = {}
    /\ ads = NewAngelDisplaySystem
    /\ scene = NewScene(800, 600)
    /\ args = [horizontal |-> Zero, vertical |-> Zero]
    /\ returned = <<>>

\* Without screen.orientation the viewport (375 x 667) decides; the angle is
\* never read.
Init ==
    Constructed({NewWindow(api, TRUE, angle) :
                    api \in SensorApis, angle \in {0, 90}}
                \cup {NewWindow(api, FALSE, 0) : api \in SensorApis})

(***************************************************************************)
(* Spec: the permission protocol of the manager                            *)
(***************************************************************************)
Next ==
    \/ Initialize
    \/ RequestPermissionImmediately
    \/ \E i \in 1..Len(calls), p \in PermissionStates : PermissionResolve(i, p)
    \/ \E i \in 1..Len(calls) : PermissionReject(i)
    \/ \E i \in 1..Len(calls) : InitializeResume(i)
    \/ StopTracking
    \/ Destroy
    \/ \E cb \in {"cbA"} : OnPermissionChange(cb)

Spec == Init /\ [][Next]_vars

(***************************************************************************)
(* SpecTeardown: tracking, platform events, stopTracking() and destroy()   *)
(***************************************************************************)
InitTeardown ==
    Constructed({NewWindow("nocap", TRUE, angle) : angle \in {0, 90}})

NextTeardown ==
    \/ Initialize
    \/ \E i \in 1..Len(calls) : InitializeResume(i)
    \/ StopTracking
    \/ Destroy
    \/ \E cb \in {"cbA"} : OnVerticalStateChange(cb)
    \/ \E cb \in {"cbA"} : OnOrientationChange(cb)
    \/ \E alpha \in LifecycleAlphas : DeviceOrientation(alpha, MaxDelivered)
    \/ \E angle \in {0, 90} : RotateDevice(angle)
    \/ OrientationChangeTimer

SpecTeardown == InitTeardown /\ [][NextTeardown]_vars

(***************************************************************************)
(* SpecSampling: samples, smoothing and the reference horizon              *)
(***************************************************************************)
InitSampling ==
    Constructed({NewWindow("nocap", TRUE, angle) : angle \in {0, 90}})

NextSampling ==
    \/ Initialize
    \/ \E i \in 1..Len(calls) : InitializeResume(i)
    \/ \E alpha \in SamplingAlphas : DeviceOrientation(alpha, MaxSamples)
    \/ \E orientation \in References : SetReferenceHorizon(orientation)
    \/ \E factor \in Factors : SetSmoothingFactor(factor)
    \/ Tick

SpecSampling == InitSampling /\ [][NextSampling]_vars

(***************************************************************************)
(* SpecCallbacks: subscriber lists and fan-out                             *)
(***************************************************************************)
InitCallbacks ==
    Constructed({NewWindow("nocap", TRUE, 0)})

\* The manager is initialized once; the subscriber lists are the subject.
NextCallbacks ==
    \/ calls = <<>> /\ Initialize
    \/ \E i \in 1..Len(calls) : InitializeResume(i)
    \/ \E cb \in Callbacks : OnOrientationChange(cb)
    \/ \E cb \in Callbacks : RemoveOrientationCallback(cb)
    \/ \E cb \in Callbacks : OnPermissionChange(cb)
    \/ \E cb \in Callbacks : OnVerticalStateChange(cb)
    \/ \E alpha \in LifecycleAlphas : DeviceOrientation(alpha, MaxDelivered)

SpecCallbacks == InitCallbacks /\ [][NextCallbacks]_vars

(***************************************************************************)
(* SpecSnapshots: samples delivered to orientation-change subscribers      *)
(***************************************************************************)
InitSnapshots ==
    Constructed({NewWindow("nocap", TRUE, 0)})

NextSnapshots ==
    \/ calls = <<>> /\ Initialize
    \/ \E i \in 1..Len(calls) : InitializeResume(i)
    \/ \E cb \in Callbacks : OnOrientationChange(cb)
    \/ \E alpha \in SnapshotAlphas : DeviceOrientation(alpha, MaxSamples)
    \/ \E orientation \in SnapshotReferences : SetReferenceHorizon(orientation)
    \/ \E angle \in {0, 90} : RotateDevice(angle)
    \/ OrientationChangeTimer
    \/ Tick

SpecSnapshots == InitSnapshots /\ [][NextSnapshots]_vars

(***************************************************************************)
(* SpecFanout: subscribers that unsubscribe themselves while a sample is   *)
(* fanned out                                                              *)
(***************************************************************************)
InitFanout ==
    Constructed({NewWindow("nocap", TRUE, 0)})

NextFanout ==
    \/ calls = <<>> /\ Initialize
    \/ \E i \in 1..Len(calls) : InitializeResume(i)
    \/ \E cb \in FanoutCallbacks : OnOrientationChange(cb)
    \/ \E cb \in FanoutCallbacks : RemoveOrientationCallback(cb)
    \/ \E alpha \in LifecycleAlphas : DeviceOrientation(alpha, MaxSamples)
    \/ Tick

SpecFanout == InitFanout /\ [][NextFanout]_vars

(***************************************************************************)
(* SpecLatest: a display that is initialized once and then fed samples,    *)
(* with time passing and requested transitions completing.  Samples may    *)
(* stop arriving at any point.                                             *)
(***************************************************************************)
InitLatest ==
    Constructed({NewWindow("nocap", TRUE, 0)})

NextLatest ==
    \/ lastOp = "constructor" /\ InitializeDisplay
    \/ \E orientation \in DisplaySamples : DeliverSample(orientation)
    \/ TweenComplete
    \/ \E ms \in ClockSteps : AdvanceClock(ms)

SpecLatest ==
    /\ InitLatest
    /\ [][NextLatest]_vars
    /\ WF_vars(\E ms \in ClockSteps : AdvanceClock(ms))
    /\ WF_vars(TweenComplete)

(***************************************************************************)
(* SpecCalculators: the angle calculators called directly, on angles drawn *)
(* from -450..450 degrees in steps of 22.5, two off-grid values and absent *)
(***************************************************************************)
InitCalculators ==
    /\ om = NewOrientationManager
    /\ win = NewWindow("nocap", TRUE, 0)
    /\ calls = <<>>
    /\ now = Epoch
    /\ fanout = <<>>
    /\ lastOp = "constructor"
    /\ accepted = 0
    /\ unsubscribed = {}
    /\ ads = NewAngelDisplaySystem
    /\ scene = NewScene(800, 600)
    /\ args \in [horizontal : CalcHorizontals, vertical : CalcVerticals]
    /\ returned = <<>>

NextCalculators ==
    \/ \E turns \in Turns : HandleAngleWrapAround(turns)
    \/ \E again \in BOOLEAN : NormalizeAngles(again)
    \/ ConvertToSphericalCoordinates

SpecCalculators == InitCalculators /\ [][NextCalculators]_vars

(***************************************************************************)
(* SpecDisplay: the display system                                         *)
(***************************************************************************)
InitDisplay ==
    Constructed({NewWindow("nocap", TRUE, 0)})

NextDisplay ==
    \/ InitializeDisplay
    \/ \E orientation \in DisplaySamples : UpdateCurrentAngel(orientation)
    \/ RenderAngelAtPosition
    \/ \E angles \in LabelAngles : DisplayAngleValues(angles[1], angles[2])
    \/ \E enabled \in BOOLEAN : SetSmoothingEnabled(enabled)
    \/ \E fps \in UpdateRates : SetDisplayUpdateRate(fps)
    \/ DestroyDisplay
    \/ TweenComplete
    \/ \E ms \in ClockSteps : AdvanceClock(ms)

SpecDisplay == InitDisplay /\ [][NextDisplay]_vars

(***************************************************************************)
(* Properties                                                              *)
(***************************************************************************)
CallbacksOf(log, chan) ==
    LET sel == SelectSeq(log, LAMBDA e : e.chan = chan)
    IN  [k \in 1..Len(sel) |-> sel[k].cb]

InSeq(x, list) == \E k \in 1..Len(list) : list[k] = x

\* C1: every permission outcome reached through initialize() or
\* requestPermissionImmediately() - granted, denied, rejected or thrown
\* request, capability absent, sensor API absent - notifies the permission
\* subscribers exactly once, with the boolean result of the call: a finished
\* call has made exactly one notifyPermissionCallbacks(result).
C1_EveryOutcomeNotifiesOnce ==
    \A i \in 1..Len(calls) :
        calls[i].pc = "done" => calls[i].notified = <<calls[i].result>>

\* C2: when stopTracking() or destroy() ran while initialize() was awaiting
\* the permission request and the request then resolves as granted, the
\* resumed initialize() attaches no platform listener and does not start
\* tracking.
C2_StaleGrantIgnored ==
    [][\A i \in 1..Len(calls) :
          ( /\ calls[i].kind = "initialize"
            /\ calls[i].stale
            /\ calls[i].pc = "awaitRequest"
            /\ calls[i].granted
            /\ calls'[i].pc = "done" )
          => /\ win'.deviceorientation = win.deviceorientation
             /\ win'.orientationchange = win.orientationchange
             /\ om'.isTracking = om.isTracking]_vars

\* C3: when destroy() returns, every platform listener the manager registered
\* is detached ('deviceorientation' and 'orientationchange', with its pending
\* timers) and the three subscriber lists are empty.
C3_DestroyDetachesEverything ==
    lastOp = "destroy" =>
        /\ win.deviceorientation = {}
        /\ win.orientationchange = {}
        /\ win.timers = 0
        /\ om.orientationChangeCallbacks = <<>>
        /\ om.verticalStateCallbacks = <<>>
        /\ om.permissionCallbacks = <<>>

Released(a) ==
    /\ a.angelSprite = 0
    /\ a.horizontalText = 0
    /\ a.verticalText = 0
    /\ ~a.currentAngel.live

\* destroy() was the last call that created or released a resource
AfterDestroy ==
    /\ Released(ads)
    /\ lastOp = "destroyDisplay" \/ scene.images # <<>> \/ scene.texts # <<>>

\* C4: after destroy() of the display system, updateCurrentAngel,
\* renderAngelAtPosition, displayAngleValues and destroy leave every tracked
\* resource released (angelSprite, horizontalText, verticalText and
\* currentAngel stay null) and create no render primitive.
C4_DestroyedStaysReleased ==
    [][( /\ AfterDestroy
         /\ lastOp' \in {"updateCurrentAngel", "renderAngelAtPosition",
                         "displayAngleValues", "destroyDisplay"} )
       => /\ Released(ads')
          /\ Len(scene'.images) = Len(scene.images)
          /\ Len(scene'.texts) = Len(scene.texts)]_vars

\* C5: the first accepted sample sets currentSmoothed to its converted
\* horizontal value; every later accepted sample sets it to
\* smoothed*(1-f) + raw*f, also when the running smoothed value is 0.
C5_FirstSeedsLaterAverage ==
    [][accepted' = accepted + 1 =>
          LET raw == to360(om'.currentRaw)
              f == om.smoothingFactor
          IN  om'.currentSmoothed =
                 IF accepted = 0 THEN raw
                 ELSE RAdd(RMul(om.currentSmoothed, RSub(Num(1), f)),
                           RMul(raw, f))]_vars

\* C6: the relative orientation and the stored deltaFromReference lie in the
\* half-open interval (-180, 180]: -180 is never produced.
C6_DeltaInHalfOpenRange ==
    /\ RGt(om.deltaFromReference, Num(-180))
    /\ RLe(om.deltaFromReference, Num(180))
    /\ RGt(getCurrentRelativeOrientation(om), Num(-180))
    /\ RLe(getCurrentRelativeOrientation(om), Num(180))

\* C7: an updateCurrentAngel call made less than updateInterval after the
\* last accepted call changes nothing of the display system or the render
\* host, and any step that accepts an update comes at least updateInterval
\* after the previous accepted one.
C7_RateLimitedCallIsNoOp ==
    [][ /\ ( /\ lastOp' = "updateCurrentAngel"
             /\ RLt(Num(now - ads.lastUpdateTime), ads.updateInterval) )
           => UNCHANGED <<ads, scene>>
        /\ ads'.lastUpdateTime # ads.lastUpdateTime
           => RGe(Num(ads'.lastUpdateTime - ads.lastUpdateTime),
                  ads.updateInterval) ]_vars

\* A call was dropped after an earlier accepted update, with the display
\* initialized.
C7_Witness ==
    /\ lastOp = "updateCurrentAngel"
    /\ ads.lastUpdateTime > Epoch
    /\ ads.lastUpdateTime < now
    /\ ads.angelSprite # 0

\* log is one or more passes over the whole list, each in the list's order
WholePasses(log, list) ==
    /\ Len(log) >= Len(list)
    /\ \A k \in 1..Len(log) : log[k] = list[((k - 1) % Len(list)) + 1]

\* C8: a fan-out invokes the callbacks of its list in registration order,
\* each once, whether or not an earlier one throws - on an accepted sample
\* for the orientation list, on a permission result for the permission list,
\* on a change of the vertical state for the vertical-state list.
C8_FanOutInOrderDespiteThrow ==
    [][ /\ accepted' = accepted + 1
           => CallbacksOf(fanout', "orientation") = om.orientationChangeCallbacks
        /\ lastOp' = "initialize"
           => CallbacksOf(fanout', "permission") = om.permissionCallbacks
        /\ om'.isVerticalOrientation # om.isVerticalOrientation
           => WholePasses(CallbacksOf(fanout', "vertical"),
                          om.verticalStateCallbacks) ]_vars

\* An accepted sample was fanned out to a throwing callback and then to a
\* later-registered one.
C8_Witness ==
    /\ lastOp = "deviceorientation"
    /\ accepted > 0
    /\ CallbacksOf(fanout, "orientation") = <<"cbThrow", "cbA">>

\* C9: after removeOrientationCallback(cb) no accepted sample invokes cb
\* (until cb is registered again), however often cb was registered before;
\* removing a callback that is not registered leaves the list unchanged.
C9_RemovedCallbackNotInvoked ==
    [][ /\ \A k \in 1..Len(fanout') :
              fanout'[k].chan = "orientation" => fanout'[k].cb \notin unsubscribed'
        /\ \A cb \in Callbacks :
              ( /\ RemoveOrientationCallback(cb)
                /\ ~InSeq(cb, om.orientationChangeCallbacks) )
              => om'.orientationChangeCallbacks = om.orientationChangeCallbacks ]_vars

\* requestPermissionImmediately() of call i returns in this step
RequestReturns(i) ==
    /\ i \in 1..Len(calls')
    /\ calls'[i].pc = IF calls'[i].kind = "initialize" THEN "awaitRequest" ELSE "done"
    /\ i > Len(calls) \/ calls[i].pc = "awaitPermission"

\* C10: requestPermissionImmediately() returns true exactly when the sensor
\* API has no requestPermission capability or the capability resolves to
\* 'granted'; every other resolved value, a rejected or thrown request (and a
\* missing sensor API, whose lookup throws) returns false; isPermissionGranted
\* equals the returned value when it returns.
C10_RequestResult ==
    [][\A i \in 1..(Len(calls) + 1) :
          RequestReturns(i) =>
             /\ calls'[i].granted =
                   ( \/ win.sensorApi = "nocap"
                     \/ win.sensorApi = "cap" /\ calls'[i].outcome = "granted" )
             /\ calls'[i].outcome \in {"denied", "prompt", "rejected", "thrown"}
                   => ~calls'[i].granted
             /\ om'.isPermissionGranted = calls'[i].granted]_vars

\* Direct calls have returned true for 'granted' and false for another
\* resolved value.
C10_Witness ==
    /\ \E i \in 1..Len(calls) :
          calls[i].kind = "request" /\ calls[i].pc = "done"
          /\ calls[i].outcome = "prompt" /\ ~calls[i].result
    /\ \E i \in 1..Len(calls) :
          calls[i].kind = "request" /\ calls[i].pc = "done"
          /\ calls[i].outcome = "granted" /\ calls[i].result

\* C11: with the sensor API absent, initialize() resolves to false at once -
\* it never reaches the permission request - no listener is attached, and
\* isPermissionGranted and isTracking stay false.
C11_UnsupportedInitializeFails ==
    win.sensorApi = "absent" =>
        /\ \A i \in 1..Len(calls) :
              calls[i].kind = "initialize" =>
                 /\ calls[i].pc = "done"
                 /\ calls[i].outcome = "unsupported"
                 /\ ~calls[i].result
        /\ win.deviceorientation = {}
        /\ win.orientationchange = {}
        /\ ~om.isPermissionGranted
        /\ ~om.isTracking

\* initialize() has returned on a platform without the sensor API.
C11_Witness ==
    /\ win.sensorApi = "absent"
    /\ \E i \in 1..Len(calls) : calls[i].kind = "initialize" /\ calls[i].pc = "done"

\* C12: a sample whose alpha is null is dropped: no field of the manager
\* changes (currentRaw, currentSmoothed, currentOrientation,
\* deltaFromReference, referenceHorizon, lastUpdate among them) and no
\* subscriber is invoked.
C12_NullAlphaDropped ==
    [][DeviceOrientation(Null, MaxDelivered) =>
          /\ om'.currentRaw = om.currentRaw
          /\ om'.currentSmoothed = om.currentSmoothed
          /\ om'.currentOrientation = om.currentOrientation
          /\ om'.deltaFromReference = om.deltaFromReference
          /\ om'.referenceHorizon = om.referenceHorizon
          /\ om'.lastUpdate = om.lastUpdate
          /\ om' = om
          /\ fanout' = <<>>
          /\ accepted' = accepted]_vars

\* A sample was delivered to a tracking manager held vertically, with an
\* orientation subscriber registered, and none has been accepted: its alpha
\* was null.
C12_Witness ==
    /\ lastOp = "deviceorientation"
    /\ accepted = 0
    /\ om.isTracking
    /\ om.isVerticalOrientation
    /\ om.orientationChangeCallbacks # <<>>

\* C13: the vertical gate is off by default: on a manager that was only
\* constructed and initialized, every sample with a non-null alpha delivered
\* while tracking is accepted - the state is updated from it - whether or not
\* the device is held vertically.
C13_AcceptedInAnyPosture ==
    [][\A alpha \in LifecycleAlphas \ {Null} :
          ( /\ om.isTracking
            /\ DeviceOrientation(alpha, MaxDelivered) )
          => /\ accepted' = accepted + 1
             /\ om'.currentRaw = alpha]_vars

Stopped ==
    /\ win.arrows >= 1
    /\ ~om.isTracking

\* C15: Stopped is terminal: once stopTracking() or destroy() has stopped a
\* tracking manager, no operation or platform event makes isTracking true
\* or delivers a sample to the manager again.
C15_StoppedIsTerminal ==
    [][Stopped =>
          /\ ~om'.isTracking
          /\ win'.deviceorientation = {}
          /\ lastOp' # "deviceorientation"]_vars

\* C16: a rendering call made while the resource it renders is missing is a
\* no-op toward the render host (no primitive created, no tween requested,
\* no text set): renderAngelAtPosition without a sprite, displayAngleValues
\* without a text primitive, updateCurrentAngel without either.
C16_MissingResourceIsNoOp ==
    [][ /\ ( /\ lastOp' = "renderAngelAtPosition"
             /\ ads.angelSprite = 0 )
           => scene' = scene
        /\ ( /\ lastOp' = "displayAngleValues"
             /\ ads.horizontalText = 0 \/ ads.verticalText = 0 )
           => scene' = scene
        /\ ( /\ lastOp' = "updateCurrentAngel"
             /\ ads.angelSprite = 0
             /\ ads.horizontalText = 0 \/ ads.verticalText = 0 )
           => scene' = scene ]_vars

\* C17: after any sequence of updateCurrentAngel calls (alpha in
\* [359.5, 360), negative and large values among the inputs),
\* 0 <= horizontalAngle < 360 and -90 <= verticalAngle <= 90.
C17_AnglesInRange ==
    /\ RGe(ads.horizontalAngle, Zero)
    /\ RLt(ads.horizontalAngle, Num(360))
    /\ RGe(ads.verticalAngle, Num(-90))
    /\ RLe(ads.verticalAngle, Num(90))

\* The sample alpha = 359.5, beta = -45.5 was accepted: its heading rounds
\* to 360 and is stored as 0.
C17_Witness ==
    /\ lastOp = "updateCurrentAngel"
    /\ ads.lastUpdateTime = now
    /\ ads.horizontalAngle = Zero
    /\ ads.verticalAngle = Num(-45)

\* The nearest integer, a half rounding away from zero
RoundHalfAwayFromZero(x) ==
    LET n == (2 * Abs(x[1]) + x[2]) \div (2 * x[2])
    IN  Num(IF x[1] < 0 THEN -n ELSE n)

\* C19: angle rounding is round-half-away-from-zero, negative halves
\* included: an accepted update stores as verticalAngle the clamped beta
\* rounded half away from zero (-45.5 gives -46), and as horizontalAngle the
\* wrapped alpha rounded likewise.
C19_RoundsHalfAwayFromZero ==
    [][\A o \in DisplaySamples :
          ( /\ lastOp' = "updateCurrentAngel"
            /\ ~IsNull(o.alpha)
            /\ ~IsNull(o.beta)
            /\ ~rateLimited(ads, now)
            /\ UpdateCurrentAngel(o) )
          => /\ ads'.verticalAngle =
                   RoundHalfAwayFromZero(
                       MathMax(Num(-90), MathMin(Num(90), o.beta)))
             /\ ads'.horizontalAngle =
                   handleAngleWrapAround(
                       RoundHalfAwayFromZero(handleAngleWrapAround(o.alpha)))]_vars

\* The whole number of degrees nearest to an angle that is not a half
NearestDegree(x) ==
    LET below == x[1] \div x[2]
    IN  IF 2 * (x[1] - below * x[2]) < x[2] THEN below ELSE below + 1

LabelFor(angle, prefix) ==
    <<prefix, IF prefix = "H" /\ NearestDegree(angle) >= 360
              THEN 0 ELSE NearestDegree(angle)>>

\* C20: formatAngleText(angle, prefix) is '<prefix>: <value>', value the
\* angle rounded to a whole degree, shown as 0 when the prefix is 'H' and
\* the rounded value is 360 or more, never wrapped or clamped with another
\* prefix ('V', the empty prefix); displayAngleValues writes these texts to
\* the two labels.
C20_LabelText ==
    [][\A angles \in LabelAngles :
          ( /\ lastOp' = "displayAngleValues"
            /\ ads.horizontalText # 0
            /\ ads.verticalText # 0
            /\ DisplayAngleValues(angles[1], angles[2]) )
          => /\ scene'.texts[ads.horizontalText].text = LabelFor(angles[1], "H")
             /\ scene'.texts[ads.verticalText].text = LabelFor(angles[2], "V")
             /\ formatAngleText(angles[1], "") = <<"", NearestDegree(angles[1])>>
             /\ formatAngleText(angles[2], "") = <<"", NearestDegree(angles[2])>>]_vars

\* displayAngleValues(360, 360) has written 'H: 0' and 'V: 360'.
C20_Witness ==
    /\ lastOp = "displayAngleValues"
    /\ ads.horizontalText # 0
    /\ ads.verticalText # 0
    /\ scene.texts[ads.horizontalText].text = <<"H", 0>>
    /\ scene.texts[ads.verticalText].text = <<"V", 360>>

InDegrees0To360(x) == RGe(x, Zero) /\ RLe(x, Num(360))

\* C18: in every reachable state referenceHorizon, currentRaw,
\* currentSmoothed and currentOrientation each lie in 0..360 degrees.
C18_OrientationFieldsIn0To360 ==
    /\ InDegrees0To360(om.referenceHorizon)
    /\ InDegrees0To360(om.currentRaw)
    /\ InDegrees0To360(om.currentSmoothed)
    /\ InDegrees0To360(om.currentOrientation)

(***************************************************************************)
(* Configuration                                                           *)
(***************************************************************************)
InSmoothingRange(f) ==
    ~IsNull(f) /\ RGe(f, Rat(1, 10)) /\ RLe(f, Rat(3, 10))

\* C21: smoothingFactor always lies in [0.1, 0.3]; setSmoothingFactor with a
\* value in that range stores it and changes nothing else, and with any
\* other value (absent, too low, too high) it changes no state at all.
C21_SmoothingFactorInRange ==
    /\ [](InSmoothingRange(om.smoothingFactor))
    /\ [][lastOp' = "setSmoothingFactor" =>
            \E factor \in Factors :
                /\ SetSmoothingFactor(factor)
                /\ win' = win
                /\ IF InSmoothingRange(factor)
                   THEN om' = [om EXCEPT !.smoothingFactor = factor]
                   ELSE om' = om]_vars

\* The upper boundary value 0.3 was stored by a call, after a sample.
C21_Witness ==
    /\ lastOp = "setSmoothingFactor"
    /\ om.smoothingFactor = Rat(3, 10)
    /\ accepted >= 1

InUpdateRateRange(fps) ==
    ~IsNull(fps) /\ RGt(fps, Zero) /\ RLe(fps, Num(120))

\* C22: displayUpdateRate is always in (0, 120] and updateInterval is always
\* 1000 / displayUpdateRate; setDisplayUpdateRate stores an fps in that
\* range together with the recomputed interval and otherwise changes
\* nothing.
C22_UpdateRateInRange ==
    /\ [](/\ InUpdateRateRange(ads.displayUpdateRate)
          /\ ads.updateInterval = RDiv(Num(1000), ads.displayUpdateRate))
    /\ [][lastOp' = "setDisplayUpdateRate" =>
            \E fps \in UpdateRates :
                /\ SetDisplayUpdateRate(fps)
                /\ scene' = scene
                /\ IF InUpdateRateRange(fps)
                   THEN ads' = [ads EXCEPT
                                  !.displayUpdateRate = fps,
                                  !.updateInterval = RDiv(Num(1000), fps)]
                   ELSE ads' = ads]_vars

\* The upper boundary rate 120 was stored, with its interval of 25/3 ms.
C22_Witness ==
    /\ lastOp = "setDisplayUpdateRate"
    /\ ads.displayUpdateRate = Num(120)
    /\ ads.updateInterval = Rat(25, 3)

(***************************************************************************)
(* Reference horizon                                                       *)
(***************************************************************************)
\* C23: setReferenceHorizon(value) stores value (0 included) as
\* referenceHorizon, or currentOrientation when no value is given, then
\* sets deltaFromReference to the relative orientation against the new
\* reference (0 when no value was given); every other field is unchanged.
C23_ReferenceHorizonSet ==
    [][lastOp' = "setReferenceHorizon" =>
          \E orientation \in References :
              /\ SetReferenceHorizon(orientation)
              /\ om'.referenceHorizon =
                    IF IsNull(orientation) THEN om.currentOrientation
                    ELSE orientation
              /\ om'.deltaFromReference = getCurrentRelativeOrientation(om')
              /\ IsNull(orientation) => om'.deltaFromReference = Zero
              /\ om' = [om EXCEPT
                          !.referenceHorizon = om'.referenceHorizon,
                          !.deltaFromReference = om'.deltaFromReference]
              /\ win' = win]_vars

\* A call without a value took the reference from a non-zero current
\* orientation.
C23_Witness ==
    /\ lastOp = "setReferenceHorizon"
    /\ accepted >= 1
    /\ om.currentOrientation # Zero
    /\ om.referenceHorizon = om.currentOrientation
    /\ om.deltaFromReference = Zero

(***************************************************************************)
(* Screen mapping                                                          *)
(***************************************************************************)
\* C24: after every accepted updateCurrentAngel with the sprite present,
\* currentAngel.screenX = (horizontalAngle/360)*W and
\* currentAngel.screenY = (1 - (verticalAngle+90)/180)*H for the viewport
\* W x H, so 0 <= screenX < W and 0 <= screenY <= H.
C24_ScreenPositionFromAngles ==
    [][(/\ lastOp' = "updateCurrentAngel"
        /\ ~rateLimited(ads, now)
        /\ ads.angelSprite # 0
        /\ ads.currentAngel.live) =>
          LET W == Num(scene.width)
              H == Num(scene.height)
              angel == ads'.currentAngel
          IN  /\ RMul(angel.screenX, Num(360)) = RMul(angel.horizontalAngle, W)
              /\ RMul(RSub(H, angel.screenY), Num(180)) =
                    RMul(RAdd(angel.verticalAngle, Num(90)), H)
              /\ RGe(angel.screenX, Zero) /\ RLt(angel.screenX, W)
              /\ RGe(angel.screenY, Zero) /\ RLe(angel.screenY, H)]_vars

\* The sample alpha = -45, beta = 120 was accepted with the sprite present:
\* heading 315 maps to 7/8 of the width, the clamped +90 to the top edge.
C24_Witness ==
    /\ lastOp = "updateCurrentAngel"
    /\ ads.lastUpdateTime = now
    /\ ads.angelSprite # 0
    /\ ads.currentAngel.live
    /\ ads.currentAngel.horizontalAngle = Num(315)
    /\ ads.currentAngel.screenX = Num(700)
    /\ ads.currentAngel.screenY = Zero

(***************************************************************************)
(* Angle calculators                                                       *)
(***************************************************************************)
CallsOf(op) == {i \in 1..Len(returned) : returned[i].op = op}

C27_AbsentFieldIsZero ==
    \A i \in CallsOf("convertToSphericalCoordinates") :
        LET alpha == returned[i].input[1]
            beta == returned[i].input[2]
            horizontal == returned[i].output[1]
            vertical == returned[i].output[2]
        IN  /\ IsNull(alpha) => horizontal = Zero
            /\ IsNull(beta) => vertical = Zero
            /\ (~IsNull(beta) /\ RGt(beta, Num(90))) => vertical = Num(90)
            /\ (~IsNull(beta) /\ RLt(beta, Num(-90))) => vertical = Num(-90)

\* A sample without alpha and with beta = 91 was converted to (0, 90).
C27_Witness ==
    \E i \in CallsOf("convertToSphericalCoordinates") :
        /\ IsNull(returned[i].input[1])
        /\ returned[i].input[2] = Num(91)
        /\ returned[i].output = <<Zero, Num(90)>>

(***************************************************************************)
(* Displayed entity                                                        *)
(***************************************************************************)
LivePrimitives(list) == Cardinality({i \in 1..Len(list) : ~list[i].destroyed})

\* C28: while the display system is active (initializeDisplay called,
\* destroy not yet) isVisible is true and exactly one sprite and exactly two
\* text primitives are live; right after destroy() none are.
C28_OneDisplayedEntity ==
    /\ ads.currentAngel.live =>
          /\ ads.currentAngel.isVisible
          /\ LivePrimitives(scene.images) = 1
          /\ LivePrimitives(scene.texts) = 2
    /\ lastOp = "destroyDisplay" =>
          /\ LivePrimitives(scene.images) = 0
          /\ LivePrimitives(scene.texts) = 0

(***************************************************************************)
(* Result of initialize()                                                  *)
(***************************************************************************)
\* initialize() of call i resolves in this step
InitializeResolves(i) ==
    /\ i \in 1..Len(calls')
    /\ calls'[i].kind = "initialize"
    /\ calls'[i].pc = "done"
    /\ i > Len(calls) \/ calls[i].pc # "done"

\* C29: initialize() resolves to true exactly when the permission outcome is
\* granted; when it resolves to true, isPermissionGranted and isTracking are
\* true and the 'deviceorientation' listener is attached; when it resolves
\* to false, isTracking is false.
C29_InitializeResultMatchesTracking ==
    [][\A i \in 1..(Len(calls) + 1) :
          InitializeResolves(i) =>
             /\ calls'[i].result = (calls'[i].outcome \in {"granted", "assumed"})
             /\ calls'[i].result =>
                   /\ om'.isPermissionGranted
                   /\ om'.isTracking
                   /\ handleOrientationChangeFn \in win'.deviceorientation
             /\ ~calls'[i].result => ~om'.isTracking]_vars

WholeTurns(x) == x[2] = 1 /\ x[1] % 360 = 0

\* C31: in every state deltaFromReference is the relative orientation of
\* the current fields: it differs from currentOrientation - referenceHorizon
\* by a whole number of turns, lies within -180..180 (current 10 against
\* reference 350 gives +20, not -340) and equals
\* getCurrentRelativeOrientation().
C31_DeltaIsRelativeOrientation ==
    /\ WholeTurns(RSub(RSub(om.currentOrientation, om.referenceHorizon),
                       om.deltaFromReference))
    /\ RGe(om.deltaFromReference, Num(-180))
    /\ RLe(om.deltaFromReference, Num(180))
    /\ om.deltaFromReference = getCurrentRelativeOrientation(om)

\* Current 10 against reference 350: the delta is +20.
C31_Witness ==
    /\ om.currentOrientation = Num(10)
    /\ om.referenceHorizon = Num(350)
    /\ om.deltaFromReference = Num(20)

(***************************************************************************)
(* Smoothing across the 0/360 boundary                                     *)
(***************************************************************************)
RAbs(x) == IF x[1] < 0 THEN RNeg(x) ELSE x

\* The length of the shorter arc between two headings in [0, 360]
CircularDistance(a, b) ==
    LET d == RAbs(RSub(a, b))
    IN  IF RGt(d, Num(180)) THEN RSub(Num(360), d) ELSE d

\* C32: an accepted sample after the first moves the smoothed heading along
\* the shorter arc towards the raw heading: its circular distance to the raw
\* heading does not grow, also across the 0/360 boundary (smoothed 350, raw
\* 10).
C32_SmoothingTakesShorterArc ==
    [][(accepted' = accepted + 1 /\ accepted >= 1) =>
          LET raw == to360(om'.currentRaw)
          IN  RLe(CircularDistance(om'.currentSmoothed, raw),
                  CircularDistance(om.currentSmoothed, raw))]_vars

(***************************************************************************)
(* Removal during fan-out                                                  *)
(***************************************************************************)
Occurrences(x, list) == Cardinality({k \in 1..Len(list) : list[k] = x})

\* C33: when a callback unsubscribes itself while an accepted sample is
\* fanned out, every other callback registered at the start of the fan-out
\* and not removed is still invoked for that sample, once per registration.
C33_RemovalDuringFanOutSkipsNobody ==
    [][(lastOp' = "deviceorientation" /\ accepted' = accepted + 1) =>
          \A cb \in FanoutCallbacks :
              ~Unsubscribes(cb) =>
                  Occurrences(cb, CallbacksOf(fanout', "orientation"))
                     = Occurrences(cb, om.orientationChangeCallbacks)]_vars

(***************************************************************************)
(* Tracking and permission                                                 *)
(***************************************************************************)
\* C34: isTracking implies isPermissionGranted in every state; a permission
\* request that is denied or fails while the manager is tracking does not
\* leave it tracking without permission.
C34_TrackingImpliesPermission ==
    om.isTracking => om.isPermissionGranted

\* C35: between operations the 'deviceorientation' handler is attached
\* exactly when isTracking is true, and it is attached at most once however
\* often initialize() and stopTracking() were called, so a platform sample
\* is handled at most once.
C35_HandlerAttachedIffTracking ==
    /\ om.isTracking <=> handleOrientationChangeFn \in win.deviceorientation
    /\ Cardinality(win.deviceorientation) <= 1

\* Monitoring was started twice and then stopped.
C35_Witness ==
    /\ lastOp = "stopTracking"
    /\ win.arrows = 2
    /\ ~om.isTracking
    /\ win.deviceorientation = {}

(***************************************************************************)
(* Overlapping and repeated initialize()                                   *)
(***************************************************************************)
\* C36: overlapping or repeated initialize() calls leave what a single
\* successful call leaves: at most one 'deviceorientation' and at most one
\* 'orientationchange' listener attached, and each successful call has
\* notified the permission subscribers once, for its one permission
\* request.
C36_RepeatedInitializeAttachesOnce ==
    /\ Cardinality(win.deviceorientation) <= 1
    /\ Cardinality(win.orientationchange) <= 1
    /\ \A i \in 1..Len(calls) :
          (calls[i].kind = "initialize" /\ calls[i].pc = "done" /\ calls[i].result)
             => calls[i].notified = <<TRUE>>

(***************************************************************************)
(* Latest sample                                                           *)
(***************************************************************************)
\* The stored angles are the conversion of the sample passed in last
ReflectsLatest ==
    \/ CallsOf("updateCurrentAngel") = {}
    \/ LET last == returned[Len(returned)].input
           coords == convertToSphericalCoordinates(
                         ads, [alpha |-> last[1], beta |-> last[2], gamma |-> Zero])
       IN  /\ ads.horizontalAngle = coords.horizontal
           /\ ads.verticalAngle = coords.vertical

\* C37: the display eventually reflects the latest input: once no further
\* sample arrives, horizontalAngle and verticalAngle eventually equal, and
\* keep equal, the conversion of the last sample passed to
\* updateCurrentAngel, also when that call was dropped by rate limiting.
C37_EventuallyReflectsLatest ==
    <>[]ReflectsLatest

(***************************************************************************)
(* Labels and stored angles                                                *)
(***************************************************************************)
\* Both labels exist and show the stored angles
LabelsShowStoredAngles(a, sc) ==
    /\ sc.texts[a.horizontalText].text = formatAngleText(a.horizontalAngle, "H")
    /\ sc.texts[a.verticalText].text = formatAngleText(a.verticalAngle, "V")

\* C38: after every accepted updateCurrentAngel, whenever both text
\* primitives exist their text is formatAngleText(horizontalAngle, 'H') and
\* formatAngleText(verticalAngle, 'V') for the angles that call stored: the
\* labels do not show a value that differs from the stored angles.
C38_LabelsShowStoredAngles ==
    [][( /\ lastOp' = "updateCurrentAngel"
         /\ ~rateLimited(ads, now)
         /\ ads'.horizontalText # 0
         /\ ads'.verticalText # 0 )
       => LabelsShowStoredAngles(ads', scene')]_vars

(***************************************************************************)
(* Rotate message                                                          *)
(***************************************************************************)
\* The device is held in a portrait orientation
DeviceIsVertical(w) ==
    IF w.screenOrientation THEN w.angle \in {0, 180}
    ELSE w.innerHeight > w.innerWidth

\* C39: after every checkDeviceOrientation(), the first one run by
\* startContinuousMonitoring included, isVerticalOrientation tells whether
\* the device is vertical and orientationMessageVisible is true exactly when
\* it is not - a device already in landscape when tracking starts gets the
\* rotate message - and when the message is shown or hidden in the step
\* every vertical-state subscriber is told 'show_message' or 'hide_message'.
C39_MessageVisibleIffNotVertical ==
    [][( \/ win'.arrows = win.arrows + 1
         \/ lastOp' = "orientationchangeTimer" )
       => /\ om'.isVerticalOrientation = DeviceIsVertical(win')
          /\ om'.orientationMessageVisible = ~om'.isVerticalOrientation
          /\ om'.orientationMessageVisible # om.orientationMessageVisible
                => \A k \in 1..Len(om'.verticalStateCallbacks) :
                      \E j \in 1..Len(fanout') :
                         fanout'[j] = Invocation(
                             "vertical", om'.verticalStateCallbacks[k],
                             << om'.isVerticalOrientation,
                                IF om'.orientationMessageVisible
                                THEN "show_message" ELSE "hide_message" >>)]_vars

====
